---- MODULE Spec2Model ----
(***************************************************************************)
(* Windows tray-icon controller (src/src/platform_impl/windows/mod.rs).    *)
(*                                                                         *)
(* One TrayIcon facade, its hidden window, the TrayLoopData record owned   *)
(* by the window's subclass procedure, the shell's notification-area slot  *)
(* keyed by (hwnd, internal_id), the window's posted-message queue and the *)
(* message a SendMessageW from another thread has in flight.               *)
(*                                                                         *)
(* The shell is the environment.  It is modelled after the documented      *)
(* behaviour of Shell_NotifyIconW: NIM_ADD fails when the slot already     *)
(* exists, NIM_MODIFY and NIM_DELETE fail when it does not, every call     *)
(* fails while the shell is not running, and a shell that starts again     *)
(* has lost all slots and broadcasts "TaskbarCreated" to the top-level     *)
(* windows.  DestroyWindow only destroys a window of the calling thread.   *)
(* SendMessageW calls the window procedure directly when the caller is the *)
(* window's thread and otherwise blocks the caller until the window's      *)
(* thread has handled the message.                                         *)
(***************************************************************************)
EXTENDS Integers, Sequences, FiniteSets, TLC

VARIABLES
    tray,       \* the facade: "none", "live", "failed" (new returned Err), "dropped"
    selfMenu,   \* TrayIcon.menu : Option<menu>
    hwndState,  \* the hidden window: "none", "live", "destroyed"
    subclassed, \* tray_subclass_proc is installed on the window
    attached,   \* menus whose subclass is attached to the window
    data,       \* TrayLoopData (the fields as last written)
    dataState,  \* its allocation: "none", "live", "freed"
    frees,      \* how often it was dropped
    uaf,        \* a field of it was read or written while not live
    boxes,      \* live boxed payloads: address -> value
    boxFault,   \* Box::from_raw of an address that holds no live box
    shellUp,    \* the shell (explorer) is running
    slot,       \* the notification-area slot : Option<NOTIFYICONDATAW>
    queue,      \* messages posted to the window, oldest first
    inflight,   \* message sent from another thread, not yet handled : Option
                \* of [op, menu, msg, wparam, lparam], op and menu being the
                \* facade call blocked in SendMessageW and its menu argument
    lastOut,    \* what the subclass procedure did in the last step, if it ran
    last,       \* the facade call the last step made or completed: [op, result]
    lastVis     \* the most recent of show / hide / destroy ("none" before create)

vars == <<tray, selfMenu, hwndState, subclassed, attached, data, dataState, frees,
          uaf, boxes, boxFault, shellUp, slot, queue, inflight, lastOut, last,
          lastVis>>

-----------------------------------------------------------------------------
(* Bounds of the model *)

MaxQueue == 1
MaxBoxes == 2
\* the longest tooltip text of the tooltip specification, in UTF-16 units
MaxTipLen == 130

-----------------------------------------------------------------------------
(* Program constants *)

TRAY_SUBCLASS_ID == 6001
WM_USER_TRAYICON == 6002
WM_USER_UPDATE_TRAYMENU == 6003
WM_USER_UPDATE_TRAYICON == 6004
WM_USER_SHOW_TRAYICON == 6005
WM_USER_HIDE_TRAYICON == 6006
WM_USER_UPDATE_TRAYTOOLTIP == 6007
WM_DESTROY == 2
WM_NCDESTROY == 130
WM_MOUSEMOVE == 512
WM_LBUTTONUP == 514
WM_LBUTTONDBLCLK == 515
WM_RBUTTONUP == 517
TipBuf == 128

\* RegisterWindowMessageA(name): an id in 0xC000..0xFFFF, the same for the same name
RegisterWindowMessageA(name) == IF name = "TaskbarCreated" THEN 49152 ELSE 49153
\* the message id of a misspelt name
S_U_TASKBAR_RESTART_typo == RegisterWindowMessageA("TaskbarCreate")
S_U_TASKBAR_RESTART == RegisterWindowMessageA("TaskbarCreated")
\* the message the shell broadcasts when its taskbar has been created
TaskbarCreated == RegisterWindowMessageA("TaskbarCreated")

NIF_MESSAGE == "NIF_MESSAGE"
NIF_ICON == "NIF_ICON"
NIF_TIP == "NIF_TIP"
NIM_ADD == "NIM_ADD"
NIM_MODIFY == "NIM_MODIFY"
NIM_DELETE == "NIM_DELETE"

-----------------------------------------------------------------------------
(* Values *)

None == <<>>
Some(v) == <<v>>
IsSome(o) == o # <<>>
Unwrap(o) == o[1]

OwnerThread == "owner"   \* the thread that ran TrayIcon::new and owns the window
OtherThread == "other"
Threads == {OwnerThread, OtherThread}

Icons == {"iconA"}
OptIcons == {None} \cup {Some(i) : i \in Icons}
Menus == {"menuA"}
OptMenus == {None} \cup {Some(m) : m \in Menus}
ShortTip == <<104, 105>>
LongTip == [i \in 1..(TipBuf + 2) |-> 120]
Tooltips == {ShortTip, LongTip}
OptTooltips == {None} \cup {Some(s) : s \in Tooltips}
ClickCodes == {WM_LBUTTONUP, WM_RBUTTONUP, WM_LBUTTONDBLCLK, WM_MOUSEMOVE}

TheId == "tray-1"        \* the TrayIconId handed to new
InternalId == 1          \* COUNTER.next()
HWnd == 1001             \* the handle CreateWindowExW returns

\* Icon::inner.as_raw_handle()
as_raw_handle(i) == IF i = "iconA" THEN 11 ELSE 12
\* ContextMenu::hpopupmenu()
hpopupmenu(m) == IF m = "menuA" THEN 21 ELSE 22
\* util::encode_wide: the UTF-16 code units, then a terminating 0
encode_wide(s) == s \o <<0>>

Min(a, b) == IF a < b THEN a ELSE b
ZeroTip == [i \in 1..TipBuf |-> 0]
\* for i in 0..tip.len().min(128) { szTip[i] = tip[i] }
\* a copy that keeps the last unit of the buffer for the terminator
CopyTip_terminated(tip) ==
    [i \in 1..TipBuf |-> IF i <= Min(Len(tip), TipBuf - 1) THEN tip[i] ELSE 0]
CopyTip(tip) == [i \in 1..TipBuf |-> IF i <= Min(Len(tip), TipBuf) THEN tip[i] ELSE 0]

\* what one run of the subclass procedure did: the message it got, whether the
\* slot existed when it began, the events it published, the popups it displayed,
\* whether it passed the message on to DefSubclassProc
NoOut == [msg |-> 0, had |-> FALSE, events |-> <<>>, popups |-> 0, passed |-> FALSE]
NoData == [id |-> TheId, internal_id |-> 0, hwnd |-> 0,
           hpopupmenu |-> None, icon |-> None, tooltip |-> None]
NoCall == [op |-> "none", result |-> "none"]

-----------------------------------------------------------------------------
(* The shell's notification area (the environment of the registrar) *)

\* the string a buffer holds: its units before the first 0
CStr(buf) ==
    LET ends == {k \in 1..Len(buf) : buf[k] = 0}
        n == IF ends = {} THEN Len(buf)
             ELSE (CHOOSE k \in ends : \A j \in ends : k <= j) - 1
    IN  SubSeq(buf, 1, n)

\* Shell_NotifyIconW(dwMessage, &nid) on machine state st: [ok, st]; the slot
\* keeps the tooltip as the string read from nid.szTip
Shell_NotifyIconW(st, dwMessage, nid) ==
    LET have == IsSome(st.slot)
        old == Unwrap(st.slot)
        added == [hWnd |-> nid.hWnd, uID |-> nid.uID,
                  uCallbackMessage |-> IF NIF_MESSAGE \in nid.uFlags
                                       THEN nid.uCallbackMessage ELSE 0,
                  hIcon |-> IF NIF_ICON \in nid.uFlags THEN nid.hIcon ELSE 0,
                  szTip |-> IF NIF_TIP \in nid.uFlags THEN CStr(nid.szTip) ELSE <<>>]
        modified == [old EXCEPT
                  !.uCallbackMessage = IF NIF_MESSAGE \in nid.uFlags
                                       THEN nid.uCallbackMessage ELSE @,
                  !.hIcon = IF NIF_ICON \in nid.uFlags THEN nid.hIcon ELSE @,
                  !.szTip = IF NIF_TIP \in nid.uFlags THEN CStr(nid.szTip) ELSE @]
    IN  CASE ~st.shellUp -> [ok |-> FALSE, st |-> st]
          [] st.shellUp /\ dwMessage = NIM_ADD /\ ~have ->
                [ok |-> TRUE, st |-> [st EXCEPT !.slot = Some(added)]]
          [] st.shellUp /\ dwMessage = NIM_MODIFY /\ have ->
                [ok |-> TRUE, st |-> [st EXCEPT !.slot = Some(modified)]]
          [] st.shellUp /\ dwMessage = NIM_DELETE /\ have ->
                [ok |-> TRUE, st |-> [st EXCEPT !.slot = None]]
          [] OTHER -> [ok |-> FALSE, st |-> st]

\* where the shell has placed the slot's icon (logical pixels)
SlotPlace == [left |-> 100, top |-> 200, right |-> 116, bottom |-> 216]
ZeroRECT == [left |-> 0, top |-> 0, right |-> 0, bottom |-> 0]

\* Shell_NotifyIconGetRect(&nid, &mut icon_rect): leaves icon_rect alone on failure
Shell_NotifyIconGetRect(st, nid, icon_rect) ==
    IF st.shellUp /\ IsSome(st.slot) /\ Unwrap(st.slot).hWnd = nid.hWnd
          /\ Unwrap(st.slot).uID = nid.uID
    THEN SlotPlace ELSE icon_rect

\* util::hwnd_dpi and util::dpi_to_scale_factor
hwnd_dpi(hwnd) == 96
dpi_to_scale_factor(dpi) == dpi \div 96

-----------------------------------------------------------------------------
(* The registrar *)

\* register_tray_icon that leaves the tooltip out of the registration
register_tray_icon_no_tip(st, hwnd, tray_id, hicon, tooltip) ==
    LET h_icon == IF IsSome(hicon) THEN Unwrap(hicon) ELSE 0
        flags == {NIF_MESSAGE} \cup (IF IsSome(hicon) THEN {NIF_ICON} ELSE {})
        nid == [uFlags |-> flags, hWnd |-> hwnd, uID |-> tray_id,
                uCallbackMessage |-> WM_USER_TRAYICON, hIcon |-> h_icon,
                szTip |-> ZeroTip]
    IN  Shell_NotifyIconW(st, NIM_ADD, nid)

register_tray_icon(st, hwnd, tray_id, hicon, tooltip) ==
    LET h_icon == IF IsSome(hicon) THEN Unwrap(hicon) ELSE 0
        flags == {NIF_MESSAGE}
                 \cup (IF IsSome(hicon) THEN {NIF_ICON} ELSE {})
                 \cup (IF IsSome(tooltip) THEN {NIF_TIP} ELSE {})
        sz_tip == IF IsSome(tooltip) THEN CopyTip(encode_wide(Unwrap(tooltip)))
                  ELSE ZeroTip
        nid == [uFlags |-> flags, hWnd |-> hwnd, uID |-> tray_id,
                uCallbackMessage |-> WM_USER_TRAYICON, hIcon |-> h_icon,
                szTip |-> sz_tip]
    IN  Shell_NotifyIconW(st, NIM_ADD, nid)

\* a removal that never reaches the shell
remove_tray_icon_skipped(st, hwnd, id) == st

\* a failure is printed and otherwise ignored
remove_tray_icon(st, hwnd, id) ==
    LET nid == [uFlags |-> {NIF_ICON}, hWnd |-> hwnd, uID |-> id,
                uCallbackMessage |-> 0, hIcon |-> 0, szTip |-> ZeroTip]
    IN  Shell_NotifyIconW(st, NIM_DELETE, nid).st

get_tray_rect(st, id, hwnd, scale_factor) ==
    LET nid == [hWnd |-> hwnd, uID |-> id]
        icon_rect == Shell_NotifyIconGetRect(st, nid, ZeroRECT)
    IN  [position |-> [x |-> icon_rect.left * scale_factor,
                       y |-> icon_rect.top * scale_factor],
         size |-> [width |-> (icon_rect.right - icon_rect.left) * scale_factor,
                   height |-> (icon_rect.bottom - icon_rect.top) * scale_factor]]

\* show_tray_menu that returns without TrackPopupMenu
show_tray_menu_silent(st, hwnd, menu, x, y) == st

\* SetForegroundWindow, then TrackPopupMenu
show_tray_menu(st, hwnd, menu, x, y) ==
    [st EXCEPT !.out.popups = @ + 1]

-----------------------------------------------------------------------------
(* Boxed payloads: Box::into_raw(Box::new(v)) and Box::from_raw(p) *)

\* the allocator hands out the lowest free address
FreeBox(st) == CHOOSE a \in 1..MaxBoxes :
                  /\ a \notin DOMAIN st.boxes
                  /\ \A b \in 1..MaxBoxes : b \notin DOMAIN st.boxes => a <= b

BoxIntoRaw(st, v) ==
    LET a == FreeBox(st)
    IN  [ptr |-> a,
         st |-> [st EXCEPT !.boxes = [b \in DOMAIN st.boxes \cup {a} |->
                                         IF b = a THEN v ELSE st.boxes[b]]]]

\* reading the payload through the pointer without taking the box back
BoxFromRaw_borrowed(st, p) ==
    IF p \in DOMAIN st.boxes
    THEN [v |-> st.boxes[p], st |-> st]
    ELSE [v |-> None, st |-> [st EXCEPT !.boxFault = TRUE]]

\* the value, and the state with the box gone; a pointer to no live box is a fault
BoxFromRaw(st, p) ==
    IF p \in DOMAIN st.boxes
    THEN [v |-> st.boxes[p],
          st |-> [st EXCEPT !.boxes = [b \in DOMAIN st.boxes \ {p} |-> st.boxes[b]]]]
    ELSE [v |-> None, st |-> [st EXCEPT !.boxFault = TRUE]]

-----------------------------------------------------------------------------
(* The message interceptor *)

\* a read or write of a TrayLoopData field through subclass_input
Touch(st) == [st EXCEPT !.uaf = @ \/ st.dataState # "live"]

DefSubclassProc(st, hwnd, msg, wparam, lparam) == [st EXCEPT !.out.passed = TRUE]

\* the classification with left and right exchanged
ClickType_swapped(lparam) ==
    CASE lparam = WM_LBUTTONUP -> "Right"
      [] lparam = WM_RBUTTONUP -> "Left"
      [] lparam = WM_LBUTTONDBLCLK -> "Double"

ClickType(lparam) ==
    CASE lparam = WM_LBUTTONUP -> "Left"
      [] lparam = WM_RBUTTONUP -> "Right"
      [] lparam = WM_LBUTTONDBLCLK -> "Double"

\* an icon whose handle is never taken
HIconOf_none(icon) == None

HIconOf(icon) == IF IsSome(icon) THEN Some(as_raw_handle(Unwrap(icon))) ELSE None

\* a WM_DESTROY arm that returns without reclaiming the record
DropTrayData_forgotten(st) == st

\* drop(Box::from_raw(subclass_input_ptr))
DropTrayData(st) ==
    [st EXCEPT !.dataState = "freed", !.frees = @ + 1,
               !.uaf = @ \/ st.dataState # "live"]

\* subclass_input = &mut *subclass_input_ptr is formed for every message, also
\* for the WM_NCDESTROY that follows the WM_DESTROY which freed the record; only
\* the arms below read or write through it (Touch)
tray_subclass_proc(st0, hwnd, msg, wparam, lparam) ==
    LET st == [st0 EXCEPT !.out = [NoOut EXCEPT !.msg = msg,
                                                !.had = IsSome(st0.slot)]]
        d == st.data
        handled ==
          CASE msg = WM_USER_UPDATE_TRAYMENU ->
                 LET b == BoxFromRaw(st, wparam)
                 IN  [Touch(b.st) EXCEPT !.data.hpopupmenu = b.v]
            [] msg = WM_USER_UPDATE_TRAYICON ->
                 LET b == BoxFromRaw(st, wparam)
                 IN  [Touch(b.st) EXCEPT !.data.icon = b.v]
            [] msg = WM_USER_SHOW_TRAYICON ->
                 register_tray_icon(Touch(st), d.hwnd, d.internal_id,
                                    HIconOf(d.icon), d.tooltip).st
            [] msg = WM_USER_HIDE_TRAYICON ->
                 remove_tray_icon(Touch(st), d.hwnd, d.internal_id)
            [] msg = WM_USER_UPDATE_TRAYTOOLTIP ->
                 LET b == BoxFromRaw(st, wparam)
                 IN  [Touch(b.st) EXCEPT !.data.tooltip = b.v]
            [] msg = S_U_TASKBAR_RESTART ->
                 register_tray_icon(Touch(st), d.hwnd, d.internal_id,
                                    HIconOf(d.icon), d.tooltip).st
            [] msg = WM_USER_TRAYICON
                 /\ lparam \in {WM_LBUTTONUP, WM_RBUTTONUP, WM_LBUTTONDBLCLK} ->
                 LET scale_factor == dpi_to_scale_factor(hwnd_dpi(hwnd))
                     ev == [id |-> d.id,
                            icon_rect |-> get_tray_rect(st, d.internal_id, hwnd,
                                                        scale_factor),
                            click_type |-> ClickType(lparam)]
                     sent == [Touch(st) EXCEPT !.out.events = Append(@, ev)]
                 IN  IF lparam = WM_RBUTTONUP /\ IsSome(d.hpopupmenu)
                     THEN show_tray_menu(sent, hwnd, Unwrap(d.hpopupmenu), 0, 0)
                     ELSE sent
            [] OTHER -> st
    IN  IF msg = WM_DESTROY
        THEN DropTrayData(st)
        ELSE DefSubclassProc(handled, hwnd, msg, wparam, lparam)

-----------------------------------------------------------------------------
(* The machine state the operators above work on, and writing it back *)

Cur == [data |-> data, dataState |-> dataState, frees |-> frees, uaf |-> uaf,
        boxes |-> boxes, boxFault |-> boxFault, shellUp |-> shellUp,
        slot |-> slot, out |-> NoOut]

Commit(st) ==
    /\ data' = st.data
    /\ dataState' = st.dataState
    /\ frees' = st.frees
    /\ uaf' = st.uaf
    /\ boxes' = st.boxes
    /\ boxFault' = st.boxFault
    /\ slot' = st.slot
    /\ lastOut' = st.out
    /\ UNCHANGED shellUp

\* the window procedure of the hidden window: the subclass procedure once it is
\* installed, before that call_default_window_proc (DefWindowProcW)
WndProc(st, msg, wparam, lparam) ==
    IF subclassed THEN tray_subclass_proc(st, HWnd, msg, wparam, lparam) ELSE st

\* SendMessageW(hwnd, msg, wparam, lparam) by thread t in facade call op (whose
\* menu argument is menu), after the caller's own work has brought the machine to st
SendMessageW(t, op, menu, st, msg, wparam, lparam) ==
    IF hwndState # "live"
    THEN Commit(st) /\ UNCHANGED inflight
    ELSE IF t = OwnerThread
         THEN Commit(WndProc(st, msg, wparam, lparam)) /\ UNCHANGED inflight
         ELSE /\ Commit(st)
              /\ inflight' = Some([op |-> op, menu |-> menu, msg |-> msg,
                                   wparam |-> wparam, lparam |-> lparam])

\* a send that returns to its caller at once, whoever the caller is
Sent_async(t) == "ok"
Sent(t) == IF t = OwnerThread \/ hwndState # "live" THEN "ok" ELSE "pending"
Call(op, result) == [op |-> op, result |-> result]
Idle == tray = "live" /\ inflight = None

-----------------------------------------------------------------------------
(* The facade *)

Init ==
    /\ tray = "none"
    /\ selfMenu = None
    /\ hwndState = "none"
    /\ subclassed = FALSE
    /\ attached = {}
    /\ data = NoData
    /\ dataState = "none"
    /\ frees = 0
    /\ uaf = FALSE
    /\ boxes = <<>>
    /\ boxFault = FALSE
    /\ shellUp = TRUE
    /\ slot = None
    /\ queue = <<>>
    /\ inflight = None
    /\ lastOut = NoOut
    /\ last = NoCall
    /\ lastVis = "none"

\* TrayIcon::new(id, attrs); createOk is whether CreateWindowExW returns a window
New(icon, tooltip, menu, createOk) ==
    /\ tray = "none"
    /\ LET r == register_tray_icon(Cur, HWnd, InternalId, HIconOf(icon), tooltip)
       IN  IF ~createOk
           THEN /\ tray' = "failed"
                /\ last' = Call("new", "err")
                /\ lastOut' = NoOut
                /\ UNCHANGED <<selfMenu, hwndState, subclassed, attached, data,
                               dataState, frees, uaf, boxes, boxFault, shellUp, slot,
                               lastVis>>
           ELSE IF ~r.ok
           THEN /\ tray' = "failed"
                /\ hwndState' = "live"
                /\ last' = Call("new", "err")
                /\ lastOut' = NoOut
                /\ UNCHANGED <<selfMenu, subclassed, attached, data, dataState,
                               frees, uaf, boxes, boxFault, shellUp, slot, lastVis>>
           ELSE /\ tray' = "live"
                /\ hwndState' = "live"
                /\ attached' = IF IsSome(menu) THEN {Unwrap(menu)} ELSE {}
                /\ data' = [id |-> TheId, internal_id |-> InternalId, hwnd |-> HWnd,
                            hpopupmenu |-> IF IsSome(menu)
                                           THEN Some(hpopupmenu(Unwrap(menu)))
                                           ELSE None,
                            icon |-> icon, tooltip |-> tooltip]
                /\ dataState' = "live"
                /\ subclassed' = TRUE
                /\ selfMenu' = menu
                /\ slot' = r.st.slot
                /\ last' = Call("new", "ok")
                /\ lastVis' = "show"
                /\ lastOut' = NoOut
                /\ UNCHANGED <<frees, uaf, boxes, boxFault, shellUp>>
    /\ UNCHANGED <<queue, inflight>>

\* set_icon that sends the update whatever NIM_MODIFY returned
set_icon_always_sends(t, icon) ==
    /\ Idle
    /\ LET nid == [uFlags |-> {NIF_ICON}, hWnd |-> HWnd, uID |-> InternalId,
                   uCallbackMessage |-> 0,
                   hIcon |-> IF IsSome(icon) THEN as_raw_handle(Unwrap(icon)) ELSE 0,
                   szTip |-> ZeroTip]
           r == Shell_NotifyIconW(Cur, NIM_MODIFY, nid)
           b == BoxIntoRaw(r.st, icon)
       IN  /\ SendMessageW(t, "set_icon", None, b.st, WM_USER_UPDATE_TRAYICON, b.ptr, 0)
           /\ last' = Call("set_icon", Sent(t))
    /\ UNCHANGED <<tray, selfMenu, hwndState, subclassed, attached, queue, lastVis>>

\* set_icon that stores the icon in TrayLoopData even when NIM_MODIFY failed
set_icon_stores_on_failure(t, icon) ==
    /\ Idle
    /\ LET nid == [uFlags |-> {NIF_ICON}, hWnd |-> HWnd, uID |-> InternalId,
                   uCallbackMessage |-> 0,
                   hIcon |-> IF IsSome(icon) THEN as_raw_handle(Unwrap(icon)) ELSE 0,
                   szTip |-> ZeroTip]
           r == Shell_NotifyIconW(Cur, NIM_MODIFY, nid)
           b == BoxIntoRaw(r.st, icon)
       IN  IF ~r.ok
           THEN /\ last' = Call("set_icon", "err")
                /\ lastOut' = NoOut
                /\ data' = [data EXCEPT !.icon = icon]
                /\ UNCHANGED <<dataState, frees, uaf, boxes, boxFault, shellUp,
                               slot, inflight>>
           ELSE /\ SendMessageW(t, "set_icon", None, b.st, WM_USER_UPDATE_TRAYICON, b.ptr, 0)
                /\ last' = Call("set_icon", Sent(t))
    /\ UNCHANGED <<tray, selfMenu, hwndState, subclassed, attached, queue, lastVis>>

set_icon(t, icon) ==
    /\ Idle
    /\ LET nid == [uFlags |-> {NIF_ICON}, hWnd |-> HWnd, uID |-> InternalId,
                   uCallbackMessage |-> 0,
                   hIcon |-> IF IsSome(icon) THEN as_raw_handle(Unwrap(icon)) ELSE 0,
                   szTip |-> ZeroTip]
           r == Shell_NotifyIconW(Cur, NIM_MODIFY, nid)
           b == BoxIntoRaw(r.st, icon)
       IN  IF ~r.ok
           THEN /\ last' = Call("set_icon", "err")
                /\ lastOut' = NoOut
                /\ UNCHANGED <<data, dataState, frees, uaf, boxes, boxFault, shellUp,
                               slot, inflight>>
           ELSE /\ SendMessageW(t, "set_icon", None, b.st, WM_USER_UPDATE_TRAYICON, b.ptr, 0)
                /\ last' = Call("set_icon", Sent(t))
    /\ UNCHANGED <<tray, selfMenu, hwndState, subclassed, attached, queue, lastVis>>

\* set_menu that attaches the new menu without detaching the previous one
set_menu_no_detach(t, menu) ==
    /\ Idle
    /\ LET b == BoxIntoRaw(Cur, IF IsSome(menu) THEN Some(hpopupmenu(Unwrap(menu)))
                                ELSE None)
       IN  /\ attached' = attached \cup (IF IsSome(menu) THEN {Unwrap(menu)} ELSE {})
           /\ SendMessageW(t, "set_menu", menu, b.st, WM_USER_UPDATE_TRAYMENU, b.ptr, 0)
           /\ last' = Call("set_menu", Sent(t))
           /\ selfMenu' = IF Sent(t) = "ok" THEN menu ELSE selfMenu
    /\ UNCHANGED <<tray, hwndState, subclassed, queue, lastVis>>

set_menu(t, menu) ==
    /\ Idle
    /\ LET b == BoxIntoRaw(Cur, IF IsSome(menu) THEN Some(hpopupmenu(Unwrap(menu)))
                                ELSE None)
       IN  /\ attached' = (attached \ (IF IsSome(selfMenu) THEN {Unwrap(selfMenu)}
                                       ELSE {}))
                          \cup (IF IsSome(menu) THEN {Unwrap(menu)} ELSE {})
           /\ SendMessageW(t, "set_menu", menu, b.st, WM_USER_UPDATE_TRAYMENU, b.ptr, 0)
           /\ last' = Call("set_menu", Sent(t))
           /\ selfMenu' = IF Sent(t) = "ok" THEN menu ELSE selfMenu
    /\ UNCHANGED <<tray, hwndState, subclassed, queue, lastVis>>

\* set_tooltip that sends the update whatever NIM_MODIFY returned
set_tooltip_always_sends(t, tooltip) ==
    /\ Idle
    /\ LET nid == [uFlags |-> {NIF_TIP}, hWnd |-> HWnd, uID |-> InternalId,
                   uCallbackMessage |-> 0, hIcon |-> 0,
                   szTip |-> IF IsSome(tooltip)
                             THEN CopyTip(encode_wide(Unwrap(tooltip)))
                             ELSE ZeroTip]
           r == Shell_NotifyIconW(Cur, NIM_MODIFY, nid)
           b == BoxIntoRaw(r.st, tooltip)
       IN  /\ SendMessageW(t, "set_tooltip", None, b.st, WM_USER_UPDATE_TRAYTOOLTIP,
                           b.ptr, 0)
           /\ last' = Call("set_tooltip", Sent(t))
    /\ UNCHANGED <<tray, selfMenu, hwndState, subclassed, attached, queue, lastVis>>

set_tooltip(t, tooltip) ==
    /\ Idle
    /\ LET nid == [uFlags |-> {NIF_TIP}, hWnd |-> HWnd, uID |-> InternalId,
                   uCallbackMessage |-> 0, hIcon |-> 0,
                   szTip |-> IF IsSome(tooltip)
                             THEN CopyTip(encode_wide(Unwrap(tooltip)))
                             ELSE ZeroTip]
           r == Shell_NotifyIconW(Cur, NIM_MODIFY, nid)
           b == BoxIntoRaw(r.st, tooltip)
       IN  IF ~r.ok
           THEN /\ last' = Call("set_tooltip", "err")
                /\ lastOut' = NoOut
                /\ UNCHANGED <<data, dataState, frees, uaf, boxes, boxFault, shellUp,
                               slot, inflight>>
           ELSE /\ SendMessageW(t, "set_tooltip", None, b.st, WM_USER_UPDATE_TRAYTOOLTIP,
                                b.ptr, 0)
                /\ last' = Call("set_tooltip", Sent(t))
    /\ UNCHANGED <<tray, selfMenu, hwndState, subclassed, attached, queue, lastVis>>

\* set_visible with the two messages the wrong way round
set_visible_inverted(t, visible) ==
    /\ Idle
    /\ SendMessageW(t, "set_visible", None, Cur,
                    IF visible THEN WM_USER_HIDE_TRAYICON ELSE WM_USER_SHOW_TRAYICON,
                    0, 0)
    /\ last' = Call("set_visible", Sent(t))
    /\ lastVis' = IF visible THEN "show" ELSE "hide"
    /\ UNCHANGED <<tray, selfMenu, hwndState, subclassed, attached, queue>>

\* set_visible that reports an OS call that did nothing as an error
set_visible_checked(t, visible) ==
    /\ Idle
    /\ SendMessageW(t, "set_visible", None, Cur,
                    IF visible THEN WM_USER_SHOW_TRAYICON ELSE WM_USER_HIDE_TRAYICON,
                    0, 0)
    /\ last' = Call("set_visible",
                    IF visible = IsSome(slot) THEN "err" ELSE Sent(t))
    /\ lastVis' = IF visible THEN "show" ELSE "hide"
    /\ UNCHANGED <<tray, selfMenu, hwndState, subclassed, attached, queue>>

set_visible(t, visible) ==
    /\ Idle
    /\ SendMessageW(t, "set_visible", None, Cur,
                    IF visible THEN WM_USER_SHOW_TRAYICON ELSE WM_USER_HIDE_TRAYICON,
                    0, 0)
    /\ last' = Call("set_visible", Sent(t))
    /\ lastVis' = IF visible THEN "show" ELSE "hide"
    /\ UNCHANGED <<tray, selfMenu, hwndState, subclassed, attached, queue>>

\* TrayIcon::rect(&self)
rect ==
    LET dpi == hwnd_dpi(HWnd)
        scale_factor == dpi_to_scale_factor(dpi)
    IN  Some(get_tray_rect(Cur, InternalId, HWnd, scale_factor))

\* DestroyWindow(hwnd) by thread t: WM_DESTROY, then WM_NCDESTROY, go to the
\* window procedure and the window is gone; it fails for a window of another thread
DestroyWindow(t, st) ==
    IF t = OwnerThread /\ hwndState = "live"
    THEN /\ Commit(WndProc(WndProc(st, WM_DESTROY, 0, 0), WM_NCDESTROY, 0, 0))
         /\ hwndState' = "destroyed"
         /\ subclassed' = FALSE
         /\ queue' = <<>>
    ELSE /\ Commit(st)
         /\ UNCHANGED <<hwndState, subclassed, queue>>

\* a Drop that sends WM_DESTROY to the window instead of destroying it
Drop_sends_wm_destroy(t) ==
    /\ Idle
    /\ attached' = attached \ (IF IsSome(selfMenu) THEN {Unwrap(selfMenu)} ELSE {})
    /\ SendMessageW(t, "drop", None, remove_tray_icon(Cur, HWnd, InternalId),
                    WM_DESTROY, 0, 0)
    /\ tray' = "dropped"
    /\ last' = Call("drop", Sent(t))
    /\ lastVis' = "hide"
    /\ UNCHANGED <<selfMenu, hwndState, subclassed, queue>>

\* Drop for TrayIcon, run by thread t
Drop(t) ==
    /\ Idle
    /\ attached' = attached \ (IF IsSome(selfMenu) THEN {Unwrap(selfMenu)} ELSE {})
    /\ DestroyWindow(t, remove_tray_icon(Cur, HWnd, InternalId))
    /\ tray' = "dropped"
    /\ last' = Call("drop", "ok")
    /\ lastVis' = "hide"
    /\ UNCHANGED <<selfMenu, inflight>>

-----------------------------------------------------------------------------
(* The window's thread and the shell *)

\* the message loop of the window's thread takes the oldest posted message
Dispatch ==
    /\ hwndState = "live"
    /\ queue # <<>>
    /\ Commit(WndProc(Cur, Head(queue).msg, Head(queue).wparam, Head(queue).lparam))
    /\ queue' = Tail(queue)
    /\ last' = NoCall
    /\ UNCHANGED <<tray, selfMenu, hwndState, subclassed, attached, inflight, lastVis>>

\* the window's thread handles the message another thread sent; the sender's
\* SendMessageW returns and its facade call completes
DeliverSent ==
    /\ IsSome(inflight)
    /\ Commit(WndProc(Cur, Unwrap(inflight).msg, Unwrap(inflight).wparam,
                      Unwrap(inflight).lparam))
    /\ inflight' = None
    /\ last' = Call(Unwrap(inflight).op, "ok")
    /\ selfMenu' = IF Unwrap(inflight).op = "set_menu" THEN Unwrap(inflight).menu
                   ELSE selfMenu
    /\ UNCHANGED <<tray, hwndState, subclassed, attached, queue, lastVis>>

\* the shell (explorer) dies: its slots are gone
ShellCrash ==
    /\ shellUp
    /\ shellUp' = FALSE
    /\ slot' = None
    /\ last' = NoCall
    /\ lastOut' = NoOut
    /\ UNCHANGED <<tray, selfMenu, hwndState, subclassed, attached, data, dataState,
                   frees, uaf, boxes, boxFault, queue, inflight, lastVis>>

\* the shell starts again and broadcasts "TaskbarCreated" to the top-level windows
ShellStart ==
    /\ ~shellUp
    /\ hwndState = "live" => Len(queue) < MaxQueue
    /\ shellUp' = TRUE
    /\ queue' = IF hwndState = "live"
                THEN Append(queue, [msg |-> TaskbarCreated, wparam |-> 0,
                                    lparam |-> 0])
                ELSE queue
    /\ last' = NoCall
    /\ lastOut' = NoOut
    /\ UNCHANGED <<tray, selfMenu, hwndState, subclassed, attached, data, dataState,
                   frees, uaf, boxes, boxFault, slot, inflight, lastVis>>

\* the user acts on the icon: the shell posts the slot's callback message
Click(code) ==
    /\ shellUp
    /\ IsSome(slot)
    /\ Unwrap(slot).uCallbackMessage # 0
    /\ hwndState = "live"
    /\ Len(queue) < MaxQueue
    /\ queue' = Append(queue, [msg |-> Unwrap(slot).uCallbackMessage,
                               wparam |-> Unwrap(slot).uID, lparam |-> code])
    /\ last' = NoCall
    /\ lastOut' = NoOut
    /\ UNCHANGED <<tray, selfMenu, hwndState, subclassed, attached, data, dataState,
                   frees, uaf, boxes, boxFault, shellUp, slot, inflight, lastVis>>

-----------------------------------------------------------------------------
(* Specifications *)

\* facade calls from any thread
Next ==
    \/ \E i \in OptIcons, s \in OptTooltips, m \in OptMenus, ok \in BOOLEAN :
          New(i, s, m, ok)
    \/ \E t \in Threads, i \in OptIcons : set_icon(t, i)
    \/ \E t \in Threads, m \in OptMenus : set_menu(t, m)
    \/ \E t \in Threads, s \in OptTooltips : set_tooltip(t, s)
    \/ \E t \in Threads, v \in BOOLEAN : set_visible(t, v)
    \/ \E t \in Threads : Drop(t)
    \/ Dispatch
    \/ DeliverSent
    \/ ShellCrash
    \/ ShellStart
    \/ \E c \in ClickCodes : Click(c)

Spec == Init /\ [][Next]_vars

\* every facade call made by the thread that created the tray icon
NextOwner ==
    \/ \E i \in OptIcons, s \in OptTooltips, m \in OptMenus, ok \in BOOLEAN :
          New(i, s, m, ok)
    \/ \E i \in OptIcons : set_icon(OwnerThread, i)
    \/ \E m \in OptMenus : set_menu(OwnerThread, m)
    \/ \E s \in OptTooltips : set_tooltip(OwnerThread, s)
    \/ \E v \in BOOLEAN : set_visible(OwnerThread, v)
    \/ Drop(OwnerThread)
    \/ Dispatch
    \/ ShellCrash
    \/ ShellStart
    \/ \E c \in ClickCodes : Click(c)

SpecOwner == Init /\ [][NextOwner]_vars

-----------------------------------------------------------------------------
(* C1: the slot and the most recent show / hide *)

\* the shell runs and nothing is on its way to the window: no facade call is
\* blocked in SendMessageW and no TaskbarCreated broadcast waits in the queue
Settled ==
    /\ shellUp
    /\ inflight = None
    /\ \A k \in 1..Len(queue) : queue[k].msg # TaskbarCreated

SlotExists ==
    /\ IsSome(slot)
    /\ Unwrap(slot).hWnd = HWnd
    /\ Unwrap(slot).uID = InternalId

\* C1: whenever the shell runs and no notification is pending, the slot keyed by
\* (window handle, internal id) exists if and only if a show (creation being the
\* first) is more recent than any hide or destroy.
C1_SlotIffShowMostRecent == Settled => (SlotExists <=> lastVis = "show")

-----------------------------------------------------------------------------
(* C2: a failed create *)

\* C2: after new has returned an error there is no TrayLoopData, no slot for the
\* internal id, and the hidden window is not left alive.
C2_FailedNewLeavesNothing ==
    tray = "failed" => /\ dataState = "none"
                       /\ ~SlotExists
                       /\ hwndState # "live"

-----------------------------------------------------------------------------
(* Steps, for the properties below: the step is the facade call named *)

IconCall(t, i) == last'.op = "set_icon" /\ set_icon(t, i)
TooltipCall(t, s) == last'.op = "set_tooltip" /\ set_tooltip(t, s)
VisibleCall(t, v) == last'.op = "set_visible" /\ set_visible(t, v)

-----------------------------------------------------------------------------
(* C3: set_icon / set_tooltip whose NIM_MODIFY fails *)

\* Shell_NotifyIconW(NIM_MODIFY, ..) for the tray's slot fails in this state
ModifyFails ==
    ~Shell_NotifyIconW(Cur, NIM_MODIFY,
                       [uFlags |-> {}, hWnd |-> HWnd, uID |-> InternalId,
                        uCallbackMessage |-> 0, hIcon |-> 0, szTip |-> ZeroTip]).ok

\* C3: a set_icon or set_tooltip whose synchronous NIM_MODIFY fails returns an
\* error and leaves the slot, the cached TrayLoopData and the payload heap as they
\* were; no message is sent and the subclass procedure does not run.
C3_FailedModifyKeepsState ==
    [][ (/\ ModifyFails
         /\ \/ \E t \in Threads, i \in OptIcons : IconCall(t, i)
            \/ \E t \in Threads, s \in OptTooltips : TooltipCall(t, s))
        => /\ last'.result = "err"
           /\ lastOut' = NoOut
           /\ UNCHANGED <<slot, data, dataState, boxes, inflight>> ]_vars

C3_FailedModifySeen ==
    /\ last.op \in {"set_icon", "set_tooltip"}
    /\ last.result = "err"
    /\ tray = "live"
    /\ ~SlotExists

-----------------------------------------------------------------------------
(* C4: reclaiming TrayLoopData *)

-----------------------------------------------------------------------------
(* C5: no use of TrayLoopData after it was reclaimed *)

\* C5: no run of the subclass procedure reads or writes a TrayLoopData that has
\* been reclaimed; when it is reclaimed the window is gone with its queue, no sent
\* update waits to be handled and no payload is left to apply.
C5_NoUseAfterFree ==
    /\ ~uaf
    /\ dataState = "freed" => /\ hwndState = "destroyed"
                              /\ ~subclassed
                              /\ queue = <<>>
                              /\ inflight = None
                              /\ boxes = <<>>

\* the teardown message that follows WM_DESTROY went through the procedure
C5_TeardownAfterReclaim ==
    /\ dataState = "freed"
    /\ lastOut.msg = WM_NCDESTROY
    /\ lastOut.passed

-----------------------------------------------------------------------------
(* C6: the boxed payloads of the update messages *)

UpdateMsgs == {WM_USER_UPDATE_TRAYMENU, WM_USER_UPDATE_TRAYICON,
               WM_USER_UPDATE_TRAYTOOLTIP}

-----------------------------------------------------------------------------
(* C7: the calls of one caller, in the order issued *)

\* the step leaves its call blocked in SendMessageW with message msg carrying v
Blocked(msg, v) ==
    /\ IsSome(inflight')
    /\ Unwrap(inflight').msg = msg
    /\ msg \in UpdateMsgs => boxes'[Unwrap(inflight').wparam] = v
\* the step handles the message msg that a blocked call had sent
Delivers(msg) == DeliverSent /\ Unwrap(inflight).msg = msg
VisibleMsg(v) == IF v THEN WM_USER_SHOW_TRAYICON ELSE WM_USER_HIDE_TRAYICON

\* C7: every set_icon, set_tooltip and set_visible of the sequence is applied by
\* the subclass procedure: when the call has returned, TrayLoopData holds the icon
\* or tooltip passed and the slot exists exactly if the call asked to show it.
C7_EveryCallApplied ==
    [][ /\ \A t \in Threads, i \in OptIcons :
              IconCall(t, i) /\ last'.result # "pending" => data'.icon = i
        /\ \A t \in Threads, s \in OptTooltips :
              TooltipCall(t, s) /\ last'.result # "pending" => data'.tooltip = s
        /\ \A t \in Threads, v \in BOOLEAN :
              VisibleCall(t, v) /\ last'.result # "pending" => (SlotExists' <=> v)
        /\ Delivers(WM_USER_UPDATE_TRAYICON) =>
              data'.icon = boxes[Unwrap(inflight).wparam]
        /\ Delivers(WM_USER_UPDATE_TRAYTOOLTIP) =>
              data'.tooltip = boxes[Unwrap(inflight).wparam]
        /\ Delivers(WM_USER_SHOW_TRAYICON) => SlotExists'
        /\ Delivers(WM_USER_HIDE_TRAYICON) => ~SlotExists' ]_vars

\* C7 as amended: a call is issued only when the previous one has returned, and a
\* call that sends its message returns only when the procedure has handled it, so
\* the messages are handled in the order issued.  A set_icon / set_tooltip that
\* returns Ok has put its argument into TrayLoopData; one that returns Err was
\* not sent and leaves TrayLoopData as it was.  After a set_visible(false) the
\* slot is absent; after a set_visible(true) it exists if the shell is running.
C7_SentCallsAppliedInOrder ==
    /\ [](last.result = "pending" => IsSome(inflight))
    /\ [][ /\ \A t \in Threads, i \in OptIcons :
                 IconCall(t, i) =>
                    /\ inflight = None
                    /\ CASE last'.result = "ok" ->
                              /\ data'.icon = i
                              /\ lastOut'.msg = WM_USER_UPDATE_TRAYICON
                         [] last'.result = "err" -> data' = data
                         [] OTHER -> Blocked(WM_USER_UPDATE_TRAYICON, i)
           /\ \A t \in Threads, s \in OptTooltips :
                 TooltipCall(t, s) =>
                    /\ inflight = None
                    /\ CASE last'.result = "ok" ->
                              /\ data'.tooltip = s
                              /\ lastOut'.msg = WM_USER_UPDATE_TRAYTOOLTIP
                         [] last'.result = "err" -> data' = data
                         [] OTHER -> Blocked(WM_USER_UPDATE_TRAYTOOLTIP, s)
           /\ \A t \in Threads, v \in BOOLEAN :
                 VisibleCall(t, v) =>
                    /\ inflight = None
                    /\ CASE last'.result = "ok" ->
                              /\ data' = data
                              /\ lastOut'.msg = VisibleMsg(v)
                              /\ v => (SlotExists' <=> shellUp)
                              /\ ~v => ~SlotExists'
                         [] last'.result = "err" -> FALSE
                         [] OTHER -> Blocked(VisibleMsg(v), None)
           /\ Delivers(WM_USER_UPDATE_TRAYICON) =>
                 /\ data'.icon = boxes[Unwrap(inflight).wparam]
                 /\ last' = Call("set_icon", "ok")
           /\ Delivers(WM_USER_UPDATE_TRAYTOOLTIP) =>
                 /\ data'.tooltip = boxes[Unwrap(inflight).wparam]
                 /\ last' = Call("set_tooltip", "ok")
           /\ Delivers(WM_USER_SHOW_TRAYICON) => (SlotExists' <=> shellUp)
           /\ Delivers(WM_USER_HIDE_TRAYICON) => ~SlotExists' ]_vars

\* a tooltip sent from another thread has been stored, the slot showing it
C7_SentTooltipApplied ==
    /\ last = Call("set_tooltip", "ok")
    /\ lastOut.msg = WM_USER_UPDATE_TRAYTOOLTIP
    /\ data.tooltip = Some(LongTip)
    /\ lastVis = "show"
    /\ SlotExists
    /\ Unwrap(slot).szTip = CStr(CopyTip(encode_wide(LongTip)))

-----------------------------------------------------------------------------
(* Hide, show and the restart of the shell *)

\* the step runs tray_subclass_proc on the message msg
Handles(msg) == lastOut'.msg = msg
\* the slot a registration from TrayLoopData d makes: the icon's handle, and the
\* tooltip as the 128-unit szTip buffer presents it
SlotFrom(d) ==
    [hWnd |-> d.hwnd, uID |-> d.internal_id, uCallbackMessage |-> WM_USER_TRAYICON,
     hIcon |-> IF IsSome(d.icon) THEN as_raw_handle(Unwrap(d.icon)) ELSE 0,
     szTip |-> IF IsSome(d.tooltip) THEN CStr(CopyTip(encode_wide(Unwrap(d.tooltip))))
               ELSE <<>>]
EmptyRect == [position |-> [x |-> 0, y |-> 0], size |-> [width |-> 0, height |-> 0]]
NoRestartPending == \A k \in 1..Len(queue) : queue[k].msg # TaskbarCreated

\* C8: when the procedure has handled a hide, the slot is absent, rect() is the
\* zero Rect, and TrayLoopData and the hidden window are as they were; while the
\* icon is hidden and no set_icon / set_tooltip is issued, the icon and tooltip of
\* TrayLoopData stay as they are; a show handled while the slot is absent and the
\* shell is running registers the slot with that icon and tooltip.
C8_HideThenShowRestores ==
    [][ /\ Handles(WM_USER_HIDE_TRAYICON) =>
              /\ ~SlotExists'
              /\ rect' = Some(EmptyRect)
              /\ data' = data /\ dataState' = dataState
              /\ hwndState' = hwndState /\ subclassed' = subclassed
        /\ ( /\ lastVis = "hide" /\ lastVis' = "hide" /\ dataState' = "live"
             /\ last'.op \notin {"set_icon", "set_tooltip"} ) =>
              /\ data'.icon = data.icon
              /\ data'.tooltip = data.tooltip
        /\ Handles(WM_USER_SHOW_TRAYICON) /\ ~SlotExists /\ shellUp =>
              /\ slot' = Some(SlotFrom(data))
              /\ data' = data
              /\ rect' # Some(EmptyRect) ]_vars

\* a show has just registered a slot that was absent, with the shell running and
\* no TaskbarCreated waiting: the slot was absent because the icon had been hidden
C8_ShownAgainAfterHide ==
    /\ lastOut.msg = WM_USER_SHOW_TRAYICON
    /\ ~lastOut.had
    /\ NoRestartPending
    /\ data.icon = Some("iconA")
    /\ data.tooltip = Some(ShortTip)
    /\ slot = Some(SlotFrom(data))
    /\ rect # Some(EmptyRect)

\* C9: set_visible never returns an error; a hide handled while the slot is
\* absent, and a show handled while the slot exists, return Ok and leave the
\* slot, what it presents and TrayLoopData as they were.
C9_SetVisibleIdempotent ==
    [][ /\ last'.op = "set_visible" => last'.result # "err"
        /\ Handles(WM_USER_HIDE_TRAYICON) /\ ~SlotExists =>
              /\ last' = Call("set_visible", "ok")
              /\ slot' = slot /\ data' = data /\ dataState' = dataState
        /\ Handles(WM_USER_SHOW_TRAYICON) /\ SlotExists =>
              /\ last' = Call("set_visible", "ok")
              /\ slot' = slot /\ data' = data /\ dataState' = dataState ]_vars

\* a show of an icon that was shown already has returned Ok, and the slot remains
C9_ShownTwice ==
    /\ lastOut.msg = WM_USER_SHOW_TRAYICON
    /\ lastOut.had
    /\ last = Call("set_visible", "ok")
    /\ slot = Some(SlotFrom(data))
    /\ IsSome(data.icon)

\* C10: when TaskbarCreated is dispatched to the subclassed window while the shell
\* is running and the slot is absent, the procedure registers the slot with the
\* icon and tooltip of TrayLoopData, in a step that is no facade call and leaves
\* TrayLoopData as it was.
C10_RestartReRegisters ==
    [][ ( /\ subclassed /\ queue # <<>>
          /\ Head(queue).msg = TaskbarCreated
          /\ shellUp /\ ~SlotExists
          /\ Dispatch ) =>
              /\ Handles(TaskbarCreated)
              /\ slot' = Some(SlotFrom(data))
              /\ data' = data
              /\ last' = NoCall ]_vars

\* TaskbarCreated has just been handled and has registered the absent slot with
\* the icon and the (truncated) tooltip of TrayLoopData
C10_ReRegisteredAfterRestart ==
    /\ lastOut.msg = TaskbarCreated
    /\ ~lastOut.had
    /\ last = NoCall
    /\ lastVis = "show"
    /\ data.icon = Some("iconA")
    /\ data.tooltip = Some(LongTip)
    /\ slot = Some(SlotFrom(data))
    /\ Len(Unwrap(slot).szTip) = TipBuf

-----------------------------------------------------------------------------
(* Click notifications *)

\* the step dispatches the posted click notification whose sub-code is code
ClickHandled(code) ==
    /\ subclassed /\ queue # <<>>
    /\ Head(queue).msg = WM_USER_TRAYICON
    /\ Head(queue).lparam = code
    /\ Dispatch

\* C11: a right-click handled while TrayLoopData holds a popup-menu handle
\* publishes exactly one event and displays the popup exactly once; a right-click
\* handled while it holds none publishes exactly one event and displays no popup;
\* a left-click or double-click publishes one event and displays no popup.
C11_RightClickPopup ==
    [][ /\ ClickHandled(WM_RBUTTONUP) =>
              /\ Len(lastOut'.events) = 1
              /\ lastOut'.events[1].click_type = "Right"
              /\ lastOut'.popups = (IF IsSome(data.hpopupmenu) THEN 1 ELSE 0)
        /\ \A code \in {WM_LBUTTONUP, WM_LBUTTONDBLCLK} :
              ClickHandled(code) =>
                 /\ Len(lastOut'.events) = 1
                 /\ lastOut'.popups = 0 ]_vars

\* a right-click has just been handled with a menu attached: one event, one popup
C11_RightClickShowedMenu ==
    /\ lastOut.msg = WM_USER_TRAYICON
    /\ IsSome(data.hpopupmenu)
    /\ Len(lastOut.events) = 1
    /\ lastOut.events[1].click_type = "Right"
    /\ lastOut.popups = 1

-----------------------------------------------------------------------------
(* What a facade mutation waits for *)

MenuCall(t, m) == last'.op = "set_menu" /\ set_menu(t, m)
\* the messages a facade mutation sends
OpMsgs(op) ==
    CASE op = "set_icon" -> {WM_USER_UPDATE_TRAYICON}
      [] op = "set_tooltip" -> {WM_USER_UPDATE_TRAYTOOLTIP}
      [] op = "set_menu" -> {WM_USER_UPDATE_TRAYMENU}
      [] op = "set_visible" -> {WM_USER_SHOW_TRAYICON, WM_USER_HIDE_TRAYICON}
      [] OTHER -> {}
\* the result of a call by thread t that has sent its message
WaitsIffOther(t) ==
    /\ t = OwnerThread => last'.result = "ok" /\ inflight' = None
    /\ t = OtherThread => last'.result = "pending" /\ IsSome(inflight')

-----------------------------------------------------------------------------
(* Which failures of the shell reach the caller *)

\* C13: a facade operation whose OS call to add or modify the slot has failed
\* returns an error: new, set_icon and set_tooltip whose Shell_NotifyIconW call
\* fails, and a set_visible(true) that ends with no slot registered, do not
\* return Ok.  (A show of a slot that exists already is not counted as a failure.)
C13_AddModifyFailureSurfaced ==
    [][ /\ (last'.op = "new" /\ tray' # "live") => last'.result = "err"
        /\ (last'.op \in {"set_icon", "set_tooltip"} /\ inflight = None
               /\ ModifyFails) => last'.result = "err"
        /\ (last'.op = "set_visible" /\ Handles(WM_USER_SHOW_TRAYICON)
               /\ ~SlotExists') => last'.result = "err" ]_vars

-----------------------------------------------------------------------------
(* Tooltip texts of every length: one tray icon, used by its creating thread *)

\* the text of n units
Text(n) == [i \in 1..n |-> 120]

NextTip ==
    \/ \E n \in 0..MaxTipLen : New(Some("iconA"), Some(Text(n)), None, TRUE)
    \/ \E n \in 0..MaxTipLen : set_tooltip(OwnerThread, Some(Text(n)))
    \/ set_tooltip(OwnerThread, None)
    \/ \E v \in BOOLEAN : set_visible(OwnerThread, v)
    \/ Dispatch
    \/ ShellCrash
    \/ ShellStart

SpecTip == Init /\ [][NextTip]_vars

\* the first min(len, 128) units of a text; nothing for an absent one
Truncated(tooltip) ==
    IF IsSome(tooltip)
    THEN SubSeq(Unwrap(tooltip), 1, Min(Len(Unwrap(tooltip)), TipBuf))
    ELSE <<>>

\* C14: a set_tooltip on an icon whose slot exists never returns an error,
\* whatever the length of the text, and leaves in the slot's tooltip field the
\* first min(len, 128) units of the text; a registration of the slot from
\* TrayLoopData (show, TaskbarCreated) puts the same truncation of the stored
\* text there.
C14_TooltipTruncated ==
    [][ /\ (last'.op = "set_tooltip" /\ SlotExists) =>
              /\ last'.result = "ok"
              /\ SlotExists'
        /\ (last'.op = "set_tooltip" /\ last'.result = "ok" /\ SlotExists') =>
              Unwrap(slot').szTip = Truncated(data'.tooltip)
        /\ ((Handles(WM_USER_SHOW_TRAYICON) \/ Handles(TaskbarCreated))
               /\ ~SlotExists /\ shellUp) =>
              /\ SlotExists'
              /\ Unwrap(slot').szTip = Truncated(data.tooltip) ]_vars

\* a text longer than the buffer has been set with success: the slot holds its
\* first 128 units
C14_LongTextTruncated ==
    /\ last = Call("set_tooltip", "ok")
    /\ IsSome(data.tooltip)
    /\ Len(Unwrap(data.tooltip)) = MaxTipLen
    /\ SlotExists
    /\ Len(Unwrap(slot).szTip) = TipBuf
    /\ Unwrap(slot).szTip = Truncated(data.tooltip)

-----------------------------------------------------------------------------
(* The order of destruction *)

\* C15: drop unregisters the slot, detaches the menu and only then destroys the
\* window: the window's teardown messages are handled with the slot already
\* absent, and in no state is the window destroyed while the slot is registered,
\* a menu is attached or TrayLoopData is still allocated.
C15_NothingOutlivesWindow ==
    /\ hwndState = "destroyed" =>
          /\ ~SlotExists
          /\ attached = {}
          /\ dataState = "freed"
    /\ lastOut.msg \in {WM_DESTROY, WM_NCDESTROY} => ~lastOut.had

\* the controller held a menu and has been dropped by its creating thread with
\* the shell running: the window is destroyed, nothing is left attached
C15_DroppedWithMenu ==
    /\ last = Call("drop", "ok")
    /\ hwndState = "destroyed"
    /\ lastOut.msg = WM_NCDESTROY
    /\ IsSome(selfMenu)
    /\ shellUp
    /\ attached = {}
    /\ ~SlotExists

-----------------------------------------------------------------------------
(* Classification of click notifications *)

\* C16: a click notification with sub-code WM_LBUTTONUP, WM_RBUTTONUP or
\* WM_LBUTTONDBLCLK publishes one event of type Left, Right or Double carrying
\* the id given at creation; one with any other sub-code publishes no event and
\* displays no popup; either way TrayLoopData is unchanged and the message is
\* passed on to DefSubclassProc.
C16_ClickClassified ==
    [][ \A code \in ClickCodes :
           ClickHandled(code) =>
              /\ lastOut'.passed
              /\ data' = data /\ dataState' = dataState
              /\ IF code \in {WM_LBUTTONUP, WM_RBUTTONUP, WM_LBUTTONDBLCLK}
                 THEN /\ Len(lastOut'.events) = 1
                      /\ lastOut'.events[1].id = TheId
                      /\ lastOut'.events[1].click_type =
                            (IF code = WM_LBUTTONUP THEN "Left"
                             ELSE IF code = WM_RBUTTONUP THEN "Right"
                             ELSE "Double")
                 ELSE /\ lastOut'.events = <<>>
                      /\ lastOut'.popups = 0 ]_vars

\* a notification with an unrecognised sub-code has just been handled while a
\* menu was attached: nothing published, nothing displayed, passed on
C16_OtherCodeIgnored ==
    /\ lastOut.msg = WM_USER_TRAYICON
    /\ lastOut.events = <<>>
    /\ lastOut.popups = 0
    /\ lastOut.passed
    /\ IsSome(data.hpopupmenu)

-----------------------------------------------------------------------------
(* Whether a failed OS call is followed by the update *)

\* the step is a set_icon or set_tooltip call (not the completion of one)
IconOrTooltipCalled == last'.op \in {"set_icon", "set_tooltip"} /\ inflight = None
\* the step has sent the update message of its call
UpdateSent == lastOut'.msg \in OpMsgs(last'.op) \/ IsSome(inflight')

\* C17: every set_icon and set_tooltip sends its update message, whatever the
\* result of its synchronous OS call.
C17_AlwaysSends == [][IconOrTooltipCalled => UpdateSent]_vars

\* C17 as amended: set_icon and set_tooltip send the update exactly when the
\* synchronous OS call succeeded; when it failed they return the error, send
\* nothing and allocate no payload, so TrayLoopData and the slot stay as they
\* were and the failure does not make them differ.
C17_SendsOnlyAfterSuccess ==
    [][ IconOrTooltipCalled =>
           /\ UpdateSent <=> ~ModifyFails
           /\ last'.result = "err" <=> ModifyFails
           /\ ModifyFails => /\ data' = data /\ slot' = slot
                             /\ boxes' = boxes /\ lastOut' = NoOut ]_vars

\* a set_tooltip on a hidden icon, with the shell running, has returned the
\* error and sent nothing
C17_FailedCallSentNothing ==
    /\ last = Call("set_tooltip", "err")
    /\ lastOut = NoOut
    /\ inflight = None
    /\ DOMAIN boxes = {}
    /\ shellUp
    /\ lastVis = "hide"
    /\ ~SlotExists

-----------------------------------------------------------------------------
(* The slot and the cached record *)

\* the icon and the tooltip the slot presents are those of TrayLoopData (the
\* tooltip cut to the 128-unit buffer, an absent icon or tooltip presented as none)
Agree ==
    (SlotExists /\ dataState = "live") =>
       /\ Unwrap(slot).hIcon = (IF IsSome(data.icon)
                                THEN as_raw_handle(Unwrap(data.icon)) ELSE 0)
       /\ Unwrap(slot).szTip = Truncated(data.tooltip)

-----------------------------------------------------------------------------
(* Menus: one tray icon whose menu is exchanged between two menus *)

TwoMenus == {"menuA", "menuB"}
OptTwoMenus == {None} \cup {Some(m) : m \in TwoMenus}

NextMenu ==
    \/ \E m \in OptTwoMenus : New(None, None, m, TRUE)
    \/ \E t \in Threads, m \in OptTwoMenus : set_menu(t, m)
    \/ \E t \in Threads : Drop(t)
    \/ DeliverSent
    \/ Click(WM_RBUTTONUP)
    \/ Dispatch
    \/ ShellCrash
    \/ ShellStart

SpecMenu == Init /\ [][NextMenu]_vars

\* the menus the facade holds: TrayIcon.menu, if any
Held == IF IsSome(selfMenu) THEN {Unwrap(selfMenu)} ELSE {}

\* C19: between facade calls on a live controller, the menus attached to the
\* window are exactly the menu the facade holds (so at most one), and
\* TrayLoopData.hpopupmenu is that menu's popup handle, or None when the facade
\* holds no menu; once the controller is dropped no menu is attached.
C19_OneMenuAttached ==
    /\ (tray = "live" /\ inflight = None) =>
          /\ attached = Held
          /\ Cardinality(attached) <= 1
          /\ data.hpopupmenu = (IF IsSome(selfMenu)
                                THEN Some(hpopupmenu(Unwrap(selfMenu))) ELSE None)
    /\ tray = "dropped" => attached = {}
    /\ tray \in {"none", "failed"} => attached = {}

\* a set_menu has returned with the second menu: it alone is attached and its
\* handle is the one stored
C19_MenuExchanged ==
    /\ last = Call("set_menu", "ok")
    /\ lastOut.msg = WM_USER_UPDATE_TRAYMENU
    /\ selfMenu = Some("menuB")
    /\ attached = {"menuB"}
    /\ data.hpopupmenu = Some(hpopupmenu("menuB"))
    /\ tray = "live"

-----------------------------------------------------------------------------
(* Updates issued while the slot is absent *)

\* C20: a set_icon or set_tooltip issued while the slot is absent returns an
\* error, sends nothing and changes neither TrayLoopData nor the slot nor the
\* queue; the show or the TaskbarCreated that next registers the absent slot
\* registers it from TrayLoopData, hence with the icon and tooltip in effect
\* before the discarded call.
C20_AbsentSlotDiscardsUpdate ==
    [][ /\ (IconOrTooltipCalled /\ ~SlotExists) =>
              /\ last'.result = "err"
              /\ lastOut' = NoOut
              /\ UNCHANGED <<data, dataState, slot, boxes, queue, inflight, lastVis>>
        /\ ((Handles(WM_USER_SHOW_TRAYICON) \/ Handles(TaskbarCreated))
               /\ ~SlotExists /\ shellUp) =>
              /\ data' = data
              /\ slot' = Some(SlotFrom(data)) ]_vars

\* after a restart of the shell, with TaskbarCreated not yet handled, a set_icon
\* has returned the error and the slot is still absent
C20_DiscardedBeforeReRegistration ==
    /\ last = Call("set_icon", "err")
    /\ shellUp
    /\ ~SlotExists
    /\ lastVis = "show"
    /\ queue # <<>>
    /\ Head(queue).msg = TaskbarCreated

====
